---- MODULE Spec2Model ----
(***************************************************************************)
(* Model of the axum/sqlx backend of src/src/handler.rs: user registration *)
(* and login, CRUD over the `cases` table, and the dispatch of a stored    *)
(* case as an outbound HTTP request (test_case_handler).                   *)
(*                                                                         *)
(* The database is the shared state (users, cases).  Every handler is run  *)
(* by a worker; a handler that issues several SQL statements or awaits the *)
(* outbound call is split at those await points, so two requests can       *)
(* interleave exactly where the code lets them.                            *)
(*                                                                         *)
(* Strings that the code transforms (method, email) are sequences of       *)
(* one-character strings; opaque strings are TLA+ strings.  Option<T> is   *)
(* <<"None">> or <<"Some", v>>.  created_at/updated_at are maintained by   *)
(* the store and are not modelled.                                         *)
(***************************************************************************)
EXTENDS Integers, Sequences, FiniteSets, TLC

VARIABLES users, cases, issued, proc

vars == <<users, cases, issued, proc>>

\* ------------------------------------------------------------------ bounds
\* Number of case identifiers (uuid values) the generator can hand out.
MaxCases == 2
\* Largest page / limit a caller supplies to the list endpoint.
MaxPage == 2
MaxLimit == 2

Workers == {"w1", "w2"}
CaseIds == 1..MaxCases

\* ------------------------------------------------------------------ Option
None == <<"None">>
Some(v) == <<"Some", v>>
IsSome(o) == o[1] = "Some"
IsNone(o) == o[1] = "None"
\* Option::unwrap on a value known to be Some
Unwrap(o) == o[2]
unwrap_or(o, d) == IF IsSome(o) THEN o[2] ELSE d

\* ------------------------------------------------------------------ strings
LowerLetters == <<"a", "b", "e", "g", "o", "p", "s", "t", "u">>
UpperLetters == <<"A", "B", "E", "G", "O", "P", "S", "T", "U">>

UpperChar(c) ==
    IF \E i \in 1..Len(LowerLetters) : LowerLetters[i] = c
    THEN UpperLetters[CHOOSE i \in 1..Len(LowerLetters) : LowerLetters[i] = c]
    ELSE c

LowerChar(c) ==
    IF \E i \in 1..Len(UpperLetters) : UpperLetters[i] = c
    THEN LowerLetters[CHOOSE i \in 1..Len(UpperLetters) : UpperLetters[i] = c]
    ELSE c

RECURSIVE to_uppercase(_)
to_uppercase(s) ==
    IF s = <<>> THEN <<>> ELSE <<UpperChar(Head(s))>> \o to_uppercase(Tail(s))

RECURSIVE to_ascii_lowercase(_)
to_ascii_lowercase(s) ==
    IF s = <<>> THEN <<>> ELSE <<LowerChar(Head(s))>> \o to_ascii_lowercase(Tail(s))

\* ------------------------------------------------------------------ inputs
Emails == {<<"a">>, <<"A">>, <<"b">>}
Passwords == {"pw1", "pw2"}
Salts == {"s1"}
RegisterBodies == [name : {"n"}, email : Emails, password : {"pw1"}]
LoginBodies == [email : Emails, password : Passwords]

\* CreateCaseSchema values: the body also carries a user_id and a used flag.
CreateBody(t, m) ==
    [user_id |-> Some(<<"u", 9>>), title |-> t, host |-> "http://h", uri |-> "/ping",
     method |-> m, request_body |-> "rb", expected_result |-> "er",
     category |-> IF t = "t1" THEN None ELSE Some("c1"), used |-> Some(TRUE)]
CreateBodies ==
    { CreateBody("t1", <<"g", "e", "t">>), CreateBody("t1", <<"p", "u", "t">>),
      CreateBody("t1", <<>>), CreateBody("t2", <<"P", "o", "s", "t">>) }

\* UpdateCaseSchema values: every field optional.
EmptyUpdate ==
    [user_id |-> None, title |-> None, host |-> None, uri |-> None, method |-> None,
     request_body |-> None, expected_result |-> None, category |-> None,
     response_code |-> None, response_body |-> None, used |-> None]
MetaUpdate == [EmptyUpdate EXCEPT !.user_id = Some(<<"u", 2>>), !.used = Some(TRUE)]
ResponseUpdate ==
    [EmptyUpdate EXCEPT !.response_code = Some("manual"),
                        !.response_body = Some("manual body")]
CodeUpdate == [EmptyUpdate EXCEPT !.response_code = Some("manual")]
UpdateBodies == {EmptyUpdate, MetaUpdate, ResponseUpdate, CodeUpdate}

\* What the target can answer: a status line and a body (None: the body
\* could not be read).
Outcomes ==
    { [status |-> "200 OK", text |-> Some("pong")],
      [status |-> "500 Internal Server Error", text |-> None] }

Pages == {None} \cup {Some(n) : n \in 0..MaxPage}
Limits == {None} \cup {Some(n) : n \in 0..MaxLimit}

\* ------------------------------------------------------------------ responses
NoJson == [status |-> "", message |-> <<>>, data |-> <<>>]
Reply(code, st, msg, data) ==
    [status |-> code, json |-> [status |-> st, message |-> msg, data |-> data],
     cookie |-> None]
\* The handler task panicked: the connection is dropped without a response.
Panicked == [status |-> 0, json |-> NoJson, cookie |-> None]
NoReply == [status |-> -1, json |-> NoJson, cookie |-> None]

NotFoundReply(id) == Reply(404, "fail", <<"Case with ID: ", id, " not found">>, <<>>)
DbErrorReply(e) == Reply(500, "error", <<e>>, <<>>)

\* ------------------------------------------------------------------ workers
Idle ==
    [pc |-> "idle", id |-> 0, user |-> <<>>, body |-> None, case |-> None,
     captured |-> None, req |-> None, branch |-> "", result |-> NoReply]

\* A worker picks up a new request: the previous request's locals are gone.
Fresh(id) == [Idle EXCEPT !.id = id]

\* The handler returns `reply`, having taken code path `br`.
Finish(w, br, reply) ==
    [proc[w] EXCEPT !.pc = "idle", !.body = None, !.case = None,
                    !.captured = None, !.branch = br, !.result = reply]

Init ==
    /\ users = {}
    /\ cases = <<>>
    /\ issued = {}
    /\ proc = [w \in Workers |-> Idle]

\* ------------------------------------------------------------------ store
StoredIds == DOMAIN cases

\* SELECT * FROM cases WHERE id = ?   (fetch_one)
SelectCase(id) == IF id \in StoredIds THEN Some(cases[id]) ELSE None

\* Column defaults of the cases table for the columns the INSERT omits.
DefaultResponse == None
DefaultUsed == 0

\* The unique index on cases.title ("Duplicate entry" in create_case_handler).
DuplicateEntry(id, title) == \E j \in StoredIds : j # id /\ cases[j].title = title


\* The Auth Guard resolves the token to a stored user (Extension(user)).
Authenticated == users

\* uuid::Uuid::new_v4(): a value never handed out before.
NewUuids == CaseIds \ issued

\* Mutant: the INSERT also binds empty strings to the response columns.
InsertRowEmptyResponse(id, user, body) ==
    [id |-> id, user_id |-> user.id, title |-> body.title, host |-> body.host,
     uri |-> body.uri, method |-> Some(body.method),
     request_body |-> Some(body.request_body),
     expected_result |-> Some(body.expected_result),
     category |-> Some(unwrap_or(body.category, "")),
     response_code |-> Some(""), response_body |-> Some(""),
     used |-> DefaultUsed]

\* Mutant: the owner is taken from the request body when it carries one.
InsertRowOwnerFromBody(id, user, body) ==
    [id |-> id, user_id |-> unwrap_or(body.user_id, user.id), title |-> body.title,
     host |-> body.host, uri |-> body.uri, method |-> Some(body.method),
     request_body |-> Some(body.request_body),
     expected_result |-> Some(body.expected_result),
     category |-> Some(unwrap_or(body.category, "")),
     response_code |-> DefaultResponse, response_body |-> DefaultResponse,
     used |-> DefaultUsed]

\* The row written by the INSERT of create_case_handler.
InsertRow(id, user, body) ==
    [id |-> id, user_id |-> user.id, title |-> body.title, host |-> body.host,
     uri |-> body.uri, method |-> Some(body.method),
     request_body |-> Some(body.request_body),
     expected_result |-> Some(body.expected_result),
     category |-> Some(unwrap_or(body.category, "")),
     response_code |-> DefaultResponse, response_body |-> DefaultResponse,
     used |-> DefaultUsed]

\* filter_db_record unwraps these columns and panics on a NULL one.
FilterPanics(case) ==
    \E f \in {"method", "request_body", "expected_result", "category"} : IsNone(case[f])

filter_db_record(case) ==
    [id |-> case.id, user_id |-> case.user_id, title |-> case.title,
     host |-> case.host, uri |-> case.uri, method |-> Unwrap(case.method),
     request_body |-> Unwrap(case.request_body),
     expected_result |-> Unwrap(case.expected_result),
     category |-> Unwrap(case.category), used |-> case.used # 0]

\* filter_db_all_record also unwraps the two response columns.
FilterAllPanics(case) ==
    FilterPanics(case) \/ IsNone(case.response_code) \/ IsNone(case.response_body)

filter_db_all_record(case) ==
    [id |-> case.id, user_id |-> case.user_id, title |-> case.title,
     host |-> case.host, uri |-> case.uri, method |-> Unwrap(case.method),
     request_body |-> Unwrap(case.request_body),
     expected_result |-> Unwrap(case.expected_result),
     category |-> Unwrap(case.category),
     response_code |-> Unwrap(case.response_code),
     response_body |-> Unwrap(case.response_body), used |-> case.used # 0]

CaseReply(case) ==
    IF FilterPanics(case) THEN Panicked
    ELSE Reply(200, "success", <<>>, <<filter_db_record(case)>>)

CaseAllReply(case) ==
    IF FilterAllPanics(case) THEN Panicked
    ELSE Reply(200, "success", <<>>, <<filter_db_all_record(case)>>)

\* ------------------------------------------------------------------ list
RECURSIVE SortedSeq(_)
\* ORDER BY id
SortedSeq(S) ==
    IF S = {} THEN <<>>
    ELSE LET m == CHOOSE x \in S : \A y \in S : x <= y
         IN <<m>> \o SortedSeq(S \ {m})

Min(a, b) == IF a <= b THEN a ELSE b

RECURSIVE RowsOf(_)
RowsOf(ids) ==
    IF ids = <<>> THEN <<>> ELSE <<cases[Head(ids)]>> \o RowsOf(Tail(ids))

\* SELECT * FROM cases WHERE user_id = ? ORDER by id LIMIT ? OFFSET ?
SelectPage(uid, limit, offset) ==
    LET ids == SortedSeq({i \in StoredIds : cases[i].user_id = uid})
    IN RowsOf(SubSeq(ids, offset + 1, Min(Len(ids), offset + limit)))

RECURSIVE FilterRows(_)
\* cases.iter().map(|case| filter_db_record(&case)).collect()
FilterRows(rows) ==
    IF rows = <<>> THEN <<>>
    ELSE <<filter_db_record(Head(rows))>> \o FilterRows(Tail(rows))

\* let limit = opts.limit.unwrap_or(10);
ListLimit(limit) == unwrap_or(limit, 10)

\* (opts.page.unwrap_or(1) - 1) * limit, narrowed with `as i32`.  With page = 0
\* the usize subtraction overflows: a build with overflow checks panics
\* (Overflowed), one without wraps to 2^64 - 1, the product wraps to
\* 2^64 - limit and the narrowing yields -limit.
Overflowed(page) == unwrap_or(page, 1) = 0

\* Mutant: the offset is page * limit (pages counted from 0).
ListOffsetFromZero(page, limit) ==
    IF Overflowed(page) THEN 0 - ListLimit(limit)
    ELSE unwrap_or(page, 1) * ListLimit(limit)

ListOffset(page, limit) ==
    IF Overflowed(page) THEN 0 - ListLimit(limit)
    ELSE (unwrap_or(page, 1) - 1) * ListLimit(limit)

\* Whether the build has overflow checks decides the outcome only when the
\* subtraction overflows.
Builds(page) == IF Overflowed(page) THEN BOOLEAN ELSE {FALSE}

case_list_handler(w, user, page, limit, overflow_checks) ==
    /\ proc[w].pc = "idle"
    /\ proc' = [proc EXCEPT ![w] =
          [Fresh(0) EXCEPT !.user = user.id,
             !.body = Some([page |-> page, limit |-> limit]),
             !.branch = IF Overflowed(page) /\ overflow_checks THEN "list_panic"
                        ELSE IF ListOffset(page, limit) < 0 THEN "list_db_error"
                        ELSE "list_ok",
             !.result =
                IF Overflowed(page) /\ overflow_checks THEN Panicked
                ELSE IF ListOffset(page, limit) < 0
                     THEN Reply(500, "fail", <<"Database error: ">>, <<>>)
                ELSE LET rows == SelectPage(user.id, ListLimit(limit),
                                            ListOffset(page, limit))
                     IN IF \E k \in 1..Len(rows) : FilterPanics(rows[k])
                        THEN Panicked
                        ELSE Reply(200, "success", <<>>, FilterRows(rows))]]
    /\ UNCHANGED <<users, cases, issued>>

\* ------------------------------------------------------------------ create
\* INSERT INTO cases (...) and the handling of its error.
create_case_insert(w, user, body, case_id) ==
    /\ proc[w].pc = "idle"
    /\ issued' = issued \cup {case_id}
    /\ IF DuplicateEntry(case_id, body.title)
       THEN /\ proc' = [proc EXCEPT ![w] =
                  [Fresh(case_id) EXCEPT !.user = user.id, !.branch = "create_conflict",
                     !.result = Reply(409, "fail",
                                      <<"Case with that title already exists">>, <<>>)]]
            /\ UNCHANGED cases
       ELSE /\ cases' = [i \in StoredIds \cup {case_id} |->
                           IF i = case_id THEN InsertRow(case_id, user, body)
                           ELSE cases[i]]
            /\ proc' = [proc EXCEPT ![w] =
                  [Fresh(case_id) EXCEPT !.pc = "create_read", !.user = user.id]]
    /\ UNCHANGED users

\* SELECT * FROM cases WHERE id = ?  and the response.
create_case_read(w) ==
    /\ proc[w].pc = "create_read"
    /\ LET row == SelectCase(proc[w].id)
       IN proc' = [proc EXCEPT ![w] =
             IF IsNone(row) THEN Finish(w, "create_gone", DbErrorReply("RowNotFound"))
             ELSE Finish(w, "create_ok", CaseReply(Unwrap(row)))]
    /\ UNCHANGED <<users, cases, issued>>

\* ------------------------------------------------------------------ get
get_case_handler(w, id) ==
    /\ proc[w].pc = "idle"
    /\ LET row == SelectCase(id)
       IN proc' = [proc EXCEPT ![w] =
             IF IsNone(row)
             THEN [Fresh(id) EXCEPT !.branch = "get_not_found", !.result = NotFoundReply(id)]
             ELSE [Fresh(id) EXCEPT !.branch = "get_ok",
                                    !.result = CaseReply(Unwrap(row))]]
    /\ UNCHANGED <<users, cases, issued>>

\* ------------------------------------------------------------------ delete
\* Mutant: the DELETE has lost its WHERE clause.
DeleteEveryRow(id) == IF id \in StoredIds THEN <<>> ELSE cases

\* DELETE FROM cases WHERE id = ?
DeleteRow(id) == [i \in StoredIds \ {id} |-> cases[i]]

delete_case_handler(w, id) ==
    /\ proc[w].pc = "idle"
    /\ cases' = DeleteRow(id)
    /\ proc' = [proc EXCEPT ![w] =
          IF id \notin StoredIds
          THEN [Fresh(id) EXCEPT !.branch = "delete_not_found",
                                 !.result = NotFoundReply(id)]
          ELSE [Fresh(id) EXCEPT !.branch = "delete_ok",
                                 !.result = Reply(204, "", <<>>, <<>>)]]
    /\ UNCHANGED <<users, issued>>


\* ------------------------------------------------------------------ update
\* The bind expressions of the UPDATE that unwrap a stored column when the
\* payload does not supply it.
EditPanics(body, case) ==
    \E f \in {"method", "request_body", "expected_result", "category",
              "response_code", "response_body"} : IsNone(body[f]) /\ IsNone(case[f])

\* let used = body.used.unwrap_or(case.used != 0); let i8_used = used as i8;
EditUsed(body, case) == IF unwrap_or(body.used, case.used # 0) THEN 1 ELSE 0

\* The values bound to the UPDATE: payload value, else the value read before.
EditRow(body, case) ==
    [id |-> case.id,
     user_id |-> unwrap_or(body.user_id, case.user_id),
     title |-> unwrap_or(body.title, case.title),
     host |-> unwrap_or(body.host, case.host),
     uri |-> unwrap_or(body.uri, case.uri),
     method |-> Some(unwrap_or(body.method, Unwrap(case.method))),
     request_body |-> Some(unwrap_or(body.request_body, Unwrap(case.request_body))),
     expected_result |->
        Some(unwrap_or(body.expected_result, Unwrap(case.expected_result))),
     category |-> Some(unwrap_or(body.category, Unwrap(case.category))),
     response_code |-> Some(unwrap_or(body.response_code, Unwrap(case.response_code))),
     response_body |-> Some(unwrap_or(body.response_body, Unwrap(case.response_body))),
     used |-> EditUsed(body, case)]

\* SELECT * FROM cases WHERE id = ?
edit_case_read(w, id, body) ==
    /\ proc[w].pc = "idle"
    /\ LET row == SelectCase(id)
       IN proc' = [proc EXCEPT ![w] =
             IF IsNone(row)
             THEN [Fresh(id) EXCEPT !.branch = "edit_not_found",
                                    !.result = NotFoundReply(id)]
             ELSE [Fresh(id) EXCEPT !.pc = "edit_write", !.body = Some(body), !.case = row]]
    /\ UNCHANGED <<users, cases, issued>>

\* UPDATE cases SET ... WHERE id = ?  and the rows_affected check.
edit_case_write(w) ==
    /\ proc[w].pc = "edit_write"
    /\ LET id == proc[w].id
           body == Unwrap(proc[w].body)
           case == Unwrap(proc[w].case)
       IN IF EditPanics(body, case)
          THEN /\ proc' = [proc EXCEPT ![w] = Finish(w, "edit_panic", Panicked)]
               /\ UNCHANGED cases
          ELSE IF id \notin StoredIds
          THEN /\ proc' = [proc EXCEPT ![w] =
                              Finish(w, "edit_zero_rows", NotFoundReply(id))]
               /\ UNCHANGED cases
          ELSE IF DuplicateEntry(id, EditRow(body, case).title)
          THEN /\ proc' = [proc EXCEPT ![w] =
                              Finish(w, "edit_db_error", DbErrorReply("Duplicate entry"))]
               /\ UNCHANGED cases
          ELSE /\ cases' = [cases EXCEPT ![id] = EditRow(body, case)]
               /\ proc' = [proc EXCEPT ![w].pc = "edit_reread", ![w].case = None]
    /\ UNCHANGED <<users, issued>>

\* SELECT * FROM cases WHERE id = ?  and the response.
edit_case_reread(w) ==
    /\ proc[w].pc = "edit_reread"
    /\ LET row == SelectCase(proc[w].id)
       IN proc' = [proc EXCEPT ![w] =
             IF IsNone(row) THEN Finish(w, "edit_gone", DbErrorReply("RowNotFound"))
             ELSE Finish(w, "edit_ok", CaseReply(Unwrap(row)))]
    /\ UNCHANGED <<users, cases, issued>>

\* ------------------------------------------------------------------ dispatch
\* case.method.unwrap_or_else(|| "GET".to_string()).to_uppercase()
DispatchMethod(case) == to_uppercase(unwrap_or(case.method, <<"G", "E", "T">>))

\* Mutant: PUT is taken for a body-bearing method and sent like POST.
SupportedWithPut(method) ==
    method \in {<<"G", "E", "T">>, <<"P", "O", "S", "T">>, <<"P", "U", "T">>}

Supported(method) == method \in {<<"G", "E", "T">>, <<"P", "O", "S", "T">>}

\* The request built by the match on method.as_str().
BuildRequest(case) ==
    IF DispatchMethod(case) = <<"G", "E", "T">>
    THEN [kind |-> "GET", url |-> <<case.host, case.uri>>, body |-> None]
    ELSE [kind |-> "POST", url |-> <<case.host, case.uri>>,
          body |-> Some(unwrap_or(case.request_body, ""))]

\* SELECT, then the request is built and sent (or refused).
test_case_read(w, id) ==
    /\ proc[w].pc = "idle"
    /\ LET row == SelectCase(id)
       IN proc' = [proc EXCEPT ![w] =
             IF IsNone(row)
             THEN [Fresh(id) EXCEPT !.branch = "test_not_found",
                                    !.result = NotFoundReply(id)]
             ELSE IF ~Supported(DispatchMethod(Unwrap(row)))
             THEN [Fresh(id) EXCEPT !.branch = "test_unsupported",
                     !.result = Reply(405, "error",
                        <<"Method: ", DispatchMethod(Unwrap(row)), " is not supported">>,
                        <<>>)]
             ELSE [Fresh(id) EXCEPT !.pc = "test_wait", !.case = row,
                                    !.req = Some(BuildRequest(Unwrap(row)))]]
    /\ UNCHANGED <<users, cases, issued>>

\* case.response_code = Some(res.status().to_string());
\* case.response_body = Some(res.text().await.unwrap_or_default());
Capture(outcome) == [code |-> outcome.status, body |-> unwrap_or(outcome.text, "")]

\* send().await returned Err: the transport failed.
test_case_failed(w) ==
    /\ proc[w].pc = "test_wait"
    /\ proc' = [proc EXCEPT ![w] =
          Finish(w, "test_failed", Reply(500, "error", <<"Request failed: ">>, <<>>))]
    /\ UNCHANGED <<users, cases, issued>>

\* send().await returned a response (any status code).
test_case_response(w, outcome) ==
    /\ proc[w].pc = "test_wait"
    /\ proc' = [proc EXCEPT ![w].pc = "test_write",
                            ![w].captured = Some(Capture(outcome))]
    /\ UNCHANGED <<users, cases, issued>>

\* Mutant: the response is written only while the columns are still NULL.
StoreResponseOnce(row, captured) ==
    IF IsSome(row.response_code) THEN row
    ELSE [row EXCEPT !.response_code = Some(captured.code),
                     !.response_body = Some(captured.body)]

\* Mutant: the write of a dispatch also marks the case as used.
StoreResponseMarkUsed(row, captured) ==
    [row EXCEPT !.response_code = Some(captured.code),
                !.response_body = Some(captured.body),
                !.used = 1]

\* Mutant: the response code and the response body are written by separate
\* statements, of which this is the first.
StoreResponseCodeOnly(row, captured) ==
    [row EXCEPT !.response_code = Some(captured.code)]

\* UPDATE cases SET response_code = ?, response_body = ? WHERE id = ?
StoreResponse(row, captured) ==
    [row EXCEPT !.response_code = Some(captured.code),
                !.response_body = Some(captured.body)]

test_case_write(w) ==
    /\ proc[w].pc = "test_write"
    /\ cases' = [i \in StoredIds |->
                   IF i = proc[w].id
                   THEN StoreResponse(cases[i], Unwrap(proc[w].captured))
                   ELSE cases[i]]
    /\ proc' = [proc EXCEPT ![w].pc = "test_reread"]
    /\ UNCHANGED <<users, issued>>

\* SELECT * FROM cases WHERE id = ?  and the response.  The worker keeps the
\* row the handler read first and the outcome it captured.
test_case_reread(w) ==
    /\ proc[w].pc = "test_reread"
    /\ LET row == SelectCase(proc[w].id)
       IN proc' = [proc EXCEPT ![w] =
             IF IsNone(row)
             THEN [Finish(w, "test_gone", DbErrorReply("RowNotFound"))
                     EXCEPT !.case = proc[w].case, !.captured = proc[w].captured]
             ELSE [Finish(w, "test_ok", CaseAllReply(Unwrap(row)))
                     EXCEPT !.case = proc[w].case, !.captured = proc[w].captured]]
    /\ UNCHANGED <<users, cases, issued>>


\* ------------------------------------------------------------------ users
\* SELECT EXISTS(SELECT 1 FROM users WHERE email = ?)
EmailExists(email) == \E u \in users : u.email = email

\* The unique index on users.email (case-insensitive).
EmailTaken(email) ==
    \E u \in users : to_ascii_lowercase(u.email) = to_ascii_lowercase(email)

\* Argon2::default().hash_password(password, &salt)
hash_password(password, salt) ==
    [alg |-> "argon2id", salt |-> salt, digest |-> <<salt, password>>]

\* Argon2::default().verify_password(password, &parsed_hash)
verify_password(password, hash) == hash.digest = <<hash.salt, password>>

\* The identifier the store assigns to a new user row.
NewUserId == <<"u", Cardinality(users) + 1>>

\* The row written by INSERT INTO users (name,email,password).
UserRow(body, salt) ==
    [id |-> NewUserId, name |-> body.name, email |-> to_ascii_lowercase(body.email),
     password |-> hash_password(body.password, salt)]

\* Mutant: the existence check looks up the e-mail as typed.
CheckedEmailAsTyped(body) == body.email

\* The e-mail the existence check of register_user_handler looks up.
CheckedEmail(body) == to_ascii_lowercase(body.email)

filter_user_record(user) == [id |-> user.id, email |-> user.email, name |-> user.name]

\* The existence check and the Conflict it reports.
register_user_check(w, body) ==
    /\ proc[w].pc = "idle"
    /\ proc' = [proc EXCEPT ![w] =
          IF EmailExists(CheckedEmail(body))
          THEN [Fresh(0) EXCEPT !.body = Some(body), !.branch = "register_conflict",
                  !.result = Reply(409, "fail",
                                   <<"User with that email already exists">>, <<>>)]
          ELSE [Fresh(0) EXCEPT !.pc = "register_insert", !.body = Some(body)]]
    /\ UNCHANGED <<users, cases, issued>>

\* The INSERT, the SELECT of the new row and the response.  No statement
\* updates or deletes a user, so the SELECT sees the row just inserted.
register_user_insert(w, salt) ==
    /\ proc[w].pc = "register_insert"
    /\ LET row == UserRow(Unwrap(proc[w].body), salt)
       IN IF EmailTaken(row.email)
          THEN /\ proc' = [proc EXCEPT ![w] =
                     [Finish(w, "register_db_error",
                             Reply(500, "fail", <<"Database error: ">>, <<>>))
                        EXCEPT !.body = proc[w].body]]
               /\ UNCHANGED users
          ELSE /\ users' = users \cup {row}
               /\ proc' = [proc EXCEPT ![w] =
                     [Finish(w, "register_ok",
                             Reply(200, "success", <<>>, <<filter_user_record(row)>>))
                        EXCEPT !.body = proc[w].body]]
    /\ UNCHANGED <<cases, issued>>

\* encode(&Header::default(), &claims, &EncodingKey::from_secret(..))
Token(user) == [sub |-> user.id]

InvalidCredentials == Reply(400, "fail", <<"Invalid email or password">>, <<>>)

\* Mutant: an unknown e-mail is answered 404 "User not found".
UnknownEmailNotFound == Reply(404, "fail", <<"User not found">>, <<>>)

\* The response when no user row matches the e-mail (ok_or_else).
UnknownEmailReply == InvalidCredentials

\* The response when the password does not verify (!is_valid).
WrongPasswordReply == InvalidCredentials

login_user_handler(w, body) ==
    /\ proc[w].pc = "idle"
    /\ LET found == {u \in users : u.email = to_ascii_lowercase(body.email)}
       IN proc' = [proc EXCEPT ![w] =
             IF found = {}
             THEN [Fresh(0) EXCEPT !.body = Some(body), !.branch = "login_unknown",
                                   !.result = UnknownEmailReply]
             ELSE LET user == CHOOSE u \in found : TRUE
                  IN IF ~verify_password(body.password, user.password)
                     THEN [Fresh(0) EXCEPT !.body = Some(body), !.branch = "login_bad_password",
                                           !.result = WrongPasswordReply]
                     ELSE [Fresh(0) EXCEPT !.body = Some(body), !.branch = "login_ok",
                             !.result =
                                [status |-> 200,
                                 json |-> [status |-> "success", message |-> <<>>,
                                           data |-> <<Token(user)>>],
                                 cookie |-> Some([name |-> "token",
                                                  value |-> Token(user)])]]]
    /\ UNCHANGED <<users, cases, issued>>

\* ------------------------------------------------------------------ system
\* One step of worker w, its inputs drawn from the sets of `in`.
Step(w, in) ==
    \/ \E body \in in.registers : register_user_check(w, body)
    \/ \E salt \in Salts : register_user_insert(w, salt)
    \/ \E body \in in.logins : login_user_handler(w, body)
    \/ \E user \in Authenticated, page \in in.pages, limit \in in.limits :
          \E overflow_checks \in Builds(page) :
            case_list_handler(w, user, page, limit, overflow_checks)
    \/ \E user \in Authenticated, body \in in.creates, case_id \in NewUuids \cap in.ids :
            create_case_insert(w, user, body, case_id)
    \/ create_case_read(w)
    \/ \E id \in in.ids : get_case_handler(w, id)
    \/ \E id \in in.ids, body \in in.updates : edit_case_read(w, id, body)
    \/ edit_case_write(w)
    \/ edit_case_reread(w)
    \/ \E id \in in.ids : delete_case_handler(w, id)
    \/ \E id \in in.ids : test_case_read(w, id)
    \/ test_case_failed(w)
    \/ \E outcome \in in.outcomes : test_case_response(w, outcome)
    \/ test_case_write(w)
    \/ test_case_reread(w)

\* The requests of a single client that waits for each response: one worker,
\* the whole range of case inputs, one registered user.
SerialInputs ==
    [workers |-> {"w1"},
     registers |-> {b \in RegisterBodies : b.email = <<"a">>},
     logins |-> LoginBodies,
     pages |-> Pages, limits |-> Limits, ids |-> CaseIds,
     creates |-> CreateBodies, updates |-> UpdateBodies, outcomes |-> Outcomes]

Next == \E w \in SerialInputs.workers : Step(w, SerialInputs)

Spec == Init /\ [][Next]_vars

\* Two requests in flight at a time, interleaved at their await points; the
\* whole range of user inputs and one case.
ConcInputs ==
    [workers |-> Workers,
     registers |-> RegisterBodies,
     logins |-> LoginBodies,
     pages |-> {None}, limits |-> {None}, ids |-> {1},
     creates |-> {CreateBody("t1", <<"g", "e", "t">>)},
     updates |-> {ResponseUpdate}, outcomes |-> {CHOOSE o \in Outcomes : IsSome(o.text)}]

ConcNext == \E w \in ConcInputs.workers : Step(w, ConcInputs)

ConcSpec == Init /\ [][ConcNext]_vars

\* Two requests in flight at a time on one case of one user: updates that do
\* and do not supply the response fields, dispatches with either outcome, and
\* deletes, interleaved at their await points.
RaceInputs ==
    [workers |-> Workers,
     registers |-> {b \in RegisterBodies : b.email = <<"a">> /\ b.password = "pw1"},
     logins |-> {b \in LoginBodies : b.email = <<"a">> /\ b.password = "pw1"},
     pages |-> {None}, limits |-> {None}, ids |-> {1},
     creates |-> {CreateBody("t1", <<"g", "e", "t">>)},
     updates |-> {MetaUpdate, ResponseUpdate}, outcomes |-> Outcomes]

RaceNext == \E w \in RaceInputs.workers : Step(w, RaceInputs)

RaceSpec == Init /\ [][RaceNext]_vars


\* ================================================================== claims
ResponseFields == {"response_code", "response_body"}
GET == <<"G", "E", "T">>
POST == <<"P", "O", "S", "T">>

\* The record a handler returned to the caller of worker w.
Returned(w) == proc[w].result.json.data[1]

\* ------------------------------------------------------------------ C1
\* C1 (as claimed): every update of a stored case, also of one that was never
\* dispatched, executes its write and leaves every field the payload does not
\* supply at its stored value.
C1_UpdateKeepsUnsupplied ==
    [][\A w \in Workers :
         (edit_case_write(w) /\ proc[w].id \in StoredIds)
         => /\ proc'[w].pc = "edit_reread"
            /\ \A f \in DOMAIN EmptyUpdate :
                 IsNone(Unwrap(proc[w].body)[f])
                 => cases'[proc[w].id][f] = cases[proc[w].id][f]]_vars

\* ------------------------------------------------------------------ C2
\* C2 (amended): the write of a dispatch sets the stored response_code and
\* response_body to exactly the outcome that dispatch captured, whatever they
\* held before; a successful dispatch returns that outcome and leaves it
\* stored; get(id) returns the record without the two response fields.
C2_DispatchOverwritesResponse ==
    /\ [][\A w \in Workers :
            (test_case_write(w) /\ proc[w].id \in StoredIds)
            => /\ cases'[proc[w].id].response_code = Some(Unwrap(proc[w].captured).code)
               /\ cases'[proc[w].id].response_body = Some(Unwrap(proc[w].captured).body)]_vars
    /\ [](\A w \in Workers :
            proc[w].branch = "test_ok"
            => /\ proc[w].result.status = 200
               /\ Returned(w).response_code = Unwrap(proc[w].captured).code
               /\ Returned(w).response_body = Unwrap(proc[w].captured).body
               /\ cases[proc[w].id].response_code = Some(Returned(w).response_code)
               /\ cases[proc[w].id].response_body = Some(Returned(w).response_body))
    /\ [](\A w \in Workers :
            (proc[w].branch = "get_ok" /\ proc[w].result.status = 200)
            => DOMAIN Returned(w) \cap ResponseFields = {})

\* A dispatch has completed on a case that held the different outcome of an
\* earlier dispatch, and the later outcome alone is stored.
C2_Witness ==
    \E w \in Workers :
        /\ proc[w].branch = "test_ok"
        /\ \E o \in Outcomes :
              /\ Unwrap(proc[w].case).response_code = Some(Capture(o).code)
              /\ Unwrap(proc[w].case).response_body = Some(Capture(o).body)
              /\ Capture(o).code # Unwrap(proc[w].captured).code
              /\ Capture(o).body # Unwrap(proc[w].captured).body
        /\ cases[proc[w].id].response_code = Some(Unwrap(proc[w].captured).code)
        /\ cases[proc[w].id].response_body = Some(Unwrap(proc[w].captured).body)

\* C2 (as claimed): a get of case id that follows a successful dispatch of id
\* returns the response_code and response_body that the dispatch captured.
C2_GetReturnsResponse ==
    [][\A w \in Workers, id \in StoredIds :
         (/\ proc[w].pc = "idle" /\ proc[w].branch = "test_ok" /\ proc[w].id = id
          /\ proc'[w].branch = "get_ok"
          /\ get_case_handler(w, id))
         => /\ proc'[w].result.status = 200
            /\ ResponseFields \subseteq DOMAIN proc'[w].result.json.data[1]
            /\ proc'[w].result.json.data[1].response_code = Unwrap(proc[w].captured).code
            /\ proc'[w].result.json.data[1].response_body = Unwrap(proc[w].captured).body]_vars

\* ------------------------------------------------------------------ C3
\* C3: a dispatch of a stored case whose uppercased method is neither GET nor
\* POST answers 405 naming that method, sends no request and changes no
\* record; a dispatch whose request fails in transport answers 500
\* "Request failed" and changes no record.
C3_FailedDispatchChangesNothing ==
    [][\A w \in Workers :
         /\ \A id \in StoredIds :
              (/\ proc[w].pc = "idle" /\ proc'[w].id = id
               /\ IsSome(cases[id].method)
               /\ to_uppercase(Unwrap(cases[id].method)) \notin {GET, POST}
               /\ test_case_read(w, id))
              => /\ proc'[w].pc = "idle"
                 /\ proc'[w].result.status = 405
                 /\ proc'[w].result.json.message =
                       <<"Method: ", to_uppercase(Unwrap(cases[id].method)),
                         " is not supported">>
                 /\ proc'[w].req = None
                 /\ cases' = cases
         /\ test_case_failed(w)
              => /\ proc'[w].pc = "idle"
                 /\ proc'[w].result.status = 500
                 /\ proc'[w].result.json.message = <<"Request failed: ">>
                 /\ cases' = cases]_vars

\* A stored "put" was dispatched: 405 naming PUT, nothing sent.
C3_Witness ==
    \E w \in Workers :
        /\ proc[w].branch = "test_unsupported"
        /\ proc[w].result.json.message[2] = <<"P", "U", "T">>
        /\ proc[w].req = None
        /\ proc[w].id \in StoredIds
        /\ IsNone(cases[proc[w].id].response_code)

\* ------------------------------------------------------------------ C4
\* Worker w is at the write of a dispatch of id that has received a response.
DispatchWrites(w, id) ==
    proc[w].pc = "test_write" /\ proc[w].id = id /\ proc'[w].pc # "test_write"

\* Worker w is at the write of an update of id whose payload supplies f.
UpdateSupplies(w, id, f) ==
    /\ proc[w].pc = "edit_write" /\ proc[w].id = id /\ proc'[w].pc # "edit_write"
    /\ IsSome(Unwrap(proc[w].body)[f])

\* Field f of case id is absent before the step and present after it.
BecomesPresent(id, f) ==
    /\ id \in DOMAIN cases' /\ IsSome(cases'[id][f])
    /\ (id \in StoredIds => IsNone(cases[id][f]))

\* C4 (amended): response_code (response_body) of a case is absent until a
\* dispatch of that case that has received a response writes it, or an update
\* of that case whose payload supplies that field writes it; no other step
\* makes it present.
C4_ResponseFromDispatchOrPayload ==
    [][\A id \in CaseIds, f \in ResponseFields :
         BecomesPresent(id, f)
         => \E w \in Workers : DispatchWrites(w, id) \/ UpdateSupplies(w, id, f)]_vars

\* A case whose method no dispatch executes, so that no dispatch has ever
\* written it, holds a response supplied by an update.
C4_Witness ==
    \E id \in StoredIds :
        /\ cases[id].method = Some(<<"p", "u", "t">>)
        /\ cases[id].response_code = Some("manual")
        /\ cases[id].response_body = Some("manual body")

\* C4 (as claimed): only a dispatch that has received a response makes the
\* response fields of a case present.
C4_ResponseOnlyFromDispatch ==
    [][\A id \in CaseIds, f \in ResponseFields :
         BecomesPresent(id, f) => \E w \in Workers : DispatchWrites(w, id)]_vars


\* ------------------------------------------------------------------ C5
\* C5 (as claimed): a dispatch of a stored case whose method is absent or the
\* empty string issues a GET request; a stored "get" or "post" in any letter
\* case is issued as GET or POST.
C5_EmptyMethodDispatchedAsGet ==
    [][\A w \in Workers, id \in StoredIds :
         (proc[w].pc = "idle" /\ proc'[w].id = id /\ test_case_read(w, id))
         => LET m == cases[id].method
            IN /\ (IsNone(m) \/ m = Some(<<>>))
                  => (proc'[w].pc = "test_wait" /\ Unwrap(proc'[w].req).kind = "GET")
               /\ (IsSome(m) /\ to_ascii_lowercase(Unwrap(m)) = <<"g", "e", "t">>)
                  => (proc'[w].pc = "test_wait" /\ Unwrap(proc'[w].req).kind = "GET")
               /\ (IsSome(m) /\ to_ascii_lowercase(Unwrap(m)) = <<"p", "o", "s", "t">>)
                  => (proc'[w].pc = "test_wait" /\ Unwrap(proc'[w].req).kind = "POST")]_vars

\* ------------------------------------------------------------------ C6
\* C6: a create that succeeds inserts a row under an id no stored case has,
\* owned by the caller, with used = 0 and both response fields absent, and
\* leaves the other rows alone; the record it returns has that id, the caller
\* as owner, used = false and no response fields, whatever user_id and used
\* the request body carried.
C6_CreateOwnerAndDefaults ==
    /\ [][\A w \in Workers, user \in users, body \in CreateBodies, id \in CaseIds :
            (/\ proc[w].pc = "idle" /\ proc'[w].pc = "create_read"
             /\ create_case_insert(w, user, body, id))
            => /\ id \notin StoredIds
               /\ DOMAIN cases' = StoredIds \cup {id}
               /\ \A j \in StoredIds : cases'[j] = cases[j]
               /\ cases'[id].id = id
               /\ cases'[id].user_id = user.id
               /\ cases'[id].used = 0
               /\ IsNone(cases'[id].response_code)
               /\ IsNone(cases'[id].response_body)]_vars
    /\ [](\A w \in Workers :
            proc[w].branch = "create_ok"
            => /\ proc[w].result.status = 200
               /\ Returned(w).id = proc[w].id
               /\ Returned(w).id \in CaseIds
               /\ Returned(w).user_id = proc[w].user
               /\ Returned(w).user_id \in {u.id : u \in users}
               /\ Returned(w).used = FALSE
               /\ DOMAIN Returned(w) \cap ResponseFields = {}
               /\ cases[proc[w].id].user_id = proc[w].user
               /\ cases[proc[w].id].used = 0
               /\ IsNone(cases[proc[w].id].response_code)
               /\ IsNone(cases[proc[w].id].response_body))

\* A create has succeeded while another case was already stored.
C6_Witness ==
    \E w \in Workers :
        /\ proc[w].branch = "create_ok"
        /\ proc[w].result.status = 200
        /\ Cardinality(StoredIds) = 2

\* ------------------------------------------------------------------ C7
Max(a, b) == IF a >= b THEN a ELSE b

\* C7: list(owner, page, limit) with page >= 1 (page 1 and limit 10 when not
\* given) answers 200 with the records of exactly the stored cases whose
\* user_id is the caller's, in ascending id order, without the first
\* (page-1)*limit of them and at most limit long.
C7_ListPageOfCaller ==
    \A w \in Workers :
        (/\ proc[w].branch \in {"list_ok", "list_db_error", "list_panic"}
         /\ unwrap_or(Unwrap(proc[w].body).page, 1) >= 1)
        => LET page == Unwrap(proc[w].body).page
               limit == Unwrap(proc[w].body).limit
               data == proc[w].result.json.data
               mine == {i \in StoredIds : cases[i].user_id = proc[w].user}
               lim == IF IsSome(limit) THEN Unwrap(limit) ELSE 10
               off == ((IF IsSome(page) THEN Unwrap(page) ELSE 1) - 1) * lim
           IN /\ proc[w].result.status = 200
              /\ Len(data) = Max(0, Min(lim, Cardinality(mine) - off))
              /\ \A k \in 1..Len(data) :
                   /\ data[k].id \in mine
                   /\ data[k].user_id = proc[w].user
                   /\ data[k].title = cases[data[k].id].title
                   /\ Cardinality({i \in mine : i < data[k].id}) = off + k - 1

\* The caller owns two cases and a list answered with the second one alone
\* (page 2 of pages of one).
C7_Witness ==
    \E w \in Workers :
        /\ proc[w].branch = "list_ok"
        /\ Unwrap(proc[w].body) = [page |-> Some(2), limit |-> Some(1)]
        /\ {i \in StoredIds : cases[i].user_id = proc[w].user} = {1, 2}
        /\ Len(proc[w].result.json.data) = 1
        /\ proc[w].result.json.data[1].id = 2

\* ------------------------------------------------------------------ C8
\* C8: delete(id) of an id that is not stored answers 404 and changes no
\* record; delete(id) of a stored id answers 204 and removes that row and no
\* other; an id that was issued and is no longer stored never comes back, so a
\* second delete of it answers 404.
C8_DeleteRemovesExactlyOne ==
    /\ [][\A w \in Workers, id \in CaseIds :
            (proc[w].pc = "idle" /\ proc'[w].id = id /\ delete_case_handler(w, id))
            => IF id \notin StoredIds
               THEN /\ proc'[w].result.status = 404
                    /\ proc'[w].result.json.message = <<"Case with ID: ", id, " not found">>
                    /\ cases' = cases
               ELSE /\ proc'[w].result.status = 204
                    /\ DOMAIN cases' = StoredIds \ {id}
                    /\ \A j \in DOMAIN cases' : cases'[j] = cases[j]]_vars
    /\ [][\A id \in issued : id \notin StoredIds => id \notin DOMAIN cases']_vars

\* A delete of an id that had been stored and deleted answered 404, while
\* another case is still stored.
C8_Witness ==
    \E w \in Workers :
        /\ proc[w].branch = "delete_not_found"
        /\ proc[w].result.status = 404
        /\ proc[w].id \in issued
        /\ StoredIds # {}

\* ------------------------------------------------------------------ C9
LoginFailed(w) == proc[w].branch \in {"login_unknown", "login_bad_password"}

\* C9: a login with an unknown e-mail and a login with a known e-mail and a
\* wrong password get the same response: status 400, "fail", the same
\* message, no token and no cookie.
C9_LoginFailuresIdentical ==
    \A w, v \in Workers :
        (LoginFailed(w) /\ LoginFailed(v))
        => /\ proc[w].result = proc[v].result
           /\ proc[w].result.status = 400
           /\ proc[w].result.json.status = "fail"
           /\ proc[w].result.json.data = <<>>
           /\ proc[w].result.cookie = None

\* Both failures have happened: one worker was refused for an unknown e-mail,
\* the other for a wrong password.
C9_Witness ==
    \E w, v \in Workers :
        /\ proc[w].branch = "login_unknown"
        /\ proc[v].branch = "login_bad_password"

\* ------------------------------------------------------------------ C10
SameEmail(a, b) == to_ascii_lowercase(a) = to_ascii_lowercase(b)

DispatchStep(w) ==
    \/ proc[w].pc = "idle" /\ test_case_read(w, proc'[w].id)
    \/ test_case_failed(w)
    \/ \E outcome \in Outcomes : test_case_response(w, outcome)
    \/ test_case_write(w)
    \/ test_case_reread(w)

\* C11: the steps of a dispatch change no field of any stored case other than
\* response_code and response_body of the dispatched case, and add or remove
\* no case; in particular used stays as it was.
C11_DispatchWritesResponseOnly ==
    [][\A w \in Workers :
         (/\ \/ proc[w].pc \in {"test_wait", "test_write", "test_reread"}
             \/ proc'[w].pc = "test_wait"
             \/ proc'[w].branch \in {"test_unsupported", "test_not_found"}
          /\ DispatchStep(w))
         => /\ DOMAIN cases' = StoredIds
            /\ \A i \in StoredIds : \A f \in DOMAIN cases[i] :
                 cases'[i][f] # cases[i][f]
                 => /\ f \in ResponseFields
                    /\ i = proc[w].id
                    /\ proc[w].pc = "test_write"]_vars

\* A dispatch that received a response has completed on a case that an
\* earlier dispatch had already written: the response is the new outcome, used
\* is still false and every other field is as the handler first read it.
C11_Witness ==
    \E w \in Workers :
        /\ proc[w].branch = "test_ok"
        /\ proc[w].id \in StoredIds
        /\ cases[proc[w].id].used = 0
        /\ IsSome(Unwrap(proc[w].case).response_code)
        /\ cases[proc[w].id].response_code = Some(Unwrap(proc[w].captured).code)
        /\ cases[proc[w].id].response_code # Unwrap(proc[w].case).response_code
        /\ \A f \in DOMAIN cases[proc[w].id] \ ResponseFields :
              cases[proc[w].id][f] = Unwrap(proc[w].case)[f]

\* ------------------------------------------------------------------ C12
\* The value the write of an update binds to column f: the payload's value,
\* else the value its handler read before.
UpdateWrote(w, f) ==
    LET body == Unwrap(proc[w].body)
        case == Unwrap(proc[w].case)
    IN IF f = "used" THEN (IF unwrap_or(body.used, case.used # 0) THEN 1 ELSE 0)
       ELSE IF f \in {"user_id", "title", "host", "uri"}
       THEN unwrap_or(body[f], case[f])
       ELSE Some(unwrap_or(body[f], Unwrap(case[f])))

\* The response_code / response_body pairs a single write can store.
SingleWritePairs ==
    {<<Some(Capture(o).code), Some(Capture(o).body)>> : o \in Outcomes}
    \cup {<<ResponseUpdate.response_code, ResponseUpdate.response_body>>}
    \cup {<<None, None>>}

\* C12: the write of an update leaves every column it binds at the value it
\* bound, the write of a dispatch leaves response_code and response_body at the
\* outcome it captured, both in one step, and no other step of an update or a
\* dispatch changes a stored case: whatever two operations on one id
\* interleave, every field holds what the last write to it wrote, and the two
\* response fields always come from one write.
C12_LastWriteWins ==
    /\ [][\A w \in Workers :
            /\ (proc[w].pc = "edit_write" /\ proc'[w].pc = "edit_reread"
                 /\ edit_case_write(w))
               => \A f \in DOMAIN cases'[proc[w].id] \ {"id"} :
                     cases'[proc[w].id][f] = UpdateWrote(w, f)
            /\ (proc[w].pc = "test_write" /\ proc[w].id \in StoredIds
                 /\ test_case_write(w))
               => /\ cases'[proc[w].id].response_code = Some(Unwrap(proc[w].captured).code)
                  /\ cases'[proc[w].id].response_body = Some(Unwrap(proc[w].captured).body)
            /\ (proc[w].pc \in {"edit_reread", "test_wait", "test_reread"}
                 /\ proc'[w] # proc[w])
               => cases' = cases]_vars
    /\ [](\A id \in StoredIds :
            <<cases[id].response_code, cases[id].response_body>> \in SingleWritePairs)

\* Two dispatches of one case overlapped and captured different outcomes: the
\* one that wrote first read back the other's outcome, and the stored response
\* is the other's outcome, code and body.
C12_Witness ==
    \E w, v \in Workers :
        /\ proc[w].branch = "test_ok" /\ proc[v].branch = "test_ok"
        /\ proc[w].id = proc[v].id /\ proc[w].id \in StoredIds
        /\ Unwrap(proc[w].captured).code # Unwrap(proc[v].captured).code
        /\ Returned(w).response_code = Unwrap(proc[v].captured).code
        /\ cases[proc[v].id].response_code = Some(Unwrap(proc[v].captured).code)
        /\ cases[proc[v].id].response_body = Some(Unwrap(proc[v].captured).body)

\* ------------------------------------------------------------------ C13
\* C13 (as claimed): the write of an update whose payload supplies neither
\* response_code nor response_body leaves the stored response_code and
\* response_body as they are, also when a dispatch of the same id has written
\* them since the update read the case.
C13_UpdateKeepsDispatchedResponse ==
    [][\A w \in Workers :
         (/\ proc[w].pc = "edit_write" /\ proc[w].id \in StoredIds
          /\ \A f \in ResponseFields : IsNone(Unwrap(proc[w].body)[f])
          /\ proc'[w].pc = "edit_reread"
          /\ edit_case_write(w))
         => \A f \in ResponseFields :
               cases'[proc[w].id][f] = cases[proc[w].id][f]]_vars

\* ------------------------------------------------------------------ C14
\* C14 (as claimed): an update whose case was deleted after the update read
\* it answers 404 "not found" when it comes to its write; and no step of any
\* update or dispatch in flight stores a case under an id that was deleted.
C14_DeletedStaysDeleted ==
    /\ [][\A w \in Workers :
            (/\ proc[w].pc = "edit_write" /\ proc[w].id \notin StoredIds
             /\ proc'[w].pc # "edit_write"
             /\ edit_case_write(w))
            => /\ proc'[w].pc = "idle"
               /\ proc'[w].result = NotFoundReply(proc[w].id)]_vars
    /\ [][\A id \in issued : id \notin StoredIds => id \notin DOMAIN cases']_vars

\* The same for the updates whose UPDATE statement is executed, and for the
\* dispatches: 404 for the update, 500 for the dispatch, nothing stored.
C14_ZeroRowsIsNotFound ==
    /\ [][\A w \in Workers :
            (/\ proc[w].pc = "edit_write" /\ proc[w].id \notin StoredIds
             /\ ~EditPanics(Unwrap(proc[w].body), Unwrap(proc[w].case))
             /\ proc'[w].pc # "edit_write"
             /\ edit_case_write(w))
            => /\ proc'[w].pc = "idle"
               /\ proc'[w].result = NotFoundReply(proc[w].id)]_vars
    /\ [][\A id \in issued : id \notin StoredIds => id \notin DOMAIN cases']_vars

\* ------------------------------------------------------------------ C15
\* C15 (as claimed): for every page and limit of a list request the unsigned
\* subtraction page - 1 does not underflow, the handler does not panic, and the
\* query is run with the supplied limit and the offset (page-1)*limit, which
\* is not negative, and answers 200.
C15_ListOffsetNeverUnderflows ==
    \A w \in Workers :
        proc[w].branch \in {"list_ok", "list_db_error", "list_panic"}
        => LET page == Unwrap(proc[w].body).page
               limit == Unwrap(proc[w].body).limit
           IN /\ ~Overflowed(page)
              /\ proc[w].branch = "list_ok"
              /\ proc[w].result.status = 200
              /\ ListLimit(limit) = (IF IsSome(limit) THEN Unwrap(limit) ELSE 10)
              /\ ListOffset(page, limit) >= 0
              /\ ListOffset(page, limit)
                    = ((IF IsSome(page) THEN Unwrap(page) ELSE 1) - 1) * ListLimit(limit)

====
